---- MODULE Spec2Model ----
(***************************************************************************)
(* Model of the ready-trader-go auto-trader (src/autotrader.cc): the       *)
(* quoting engine, the three-view resting-order registry of each side, the *)
(* position and hedge tracker and the message frequency tracker.           *)
(*                                                                         *)
(* Prices are C++ unsigned long values.  An unsigned 64-bit value is the   *)
(* tuple <<l3, l2, l1, l0>> of its four 16-bit limbs, most significant     *)
(* first, so that wrap-around, the narrowing to unsigned int and the       *)
(* narrowing to int are computed exactly.  Volumes, the position and the   *)
(* message count stay far inside their C++ ranges and are plain integers.  *)
(* One time unit is 100 milliseconds.                                      *)
(***************************************************************************)
EXTENDS Integers, Sequences, FiniteSets, TLC

\* ------------------------------------------------------------------------
\* Program constants
\* ------------------------------------------------------------------------
LOT_SIZE == 10
POSITION_LIMIT == 100
TICK_SIZE_IN_CENTS == 100
NUM_CLONES == 3
MAX_MESSAGE_FREQ == 50
ADDITIONAL_SPREAD == 1 * TICK_SIZE_IN_CENTS
\* boost::posix_time::seconds(1), in units of 100 ms
PeriodLength == 10
\* boost::posix_time::milliseconds(100) added to the backstop wait
BackstopSlack == 1
\* constexpr long minPositionImbalance
minPositionImbalance == 50
\* constexpr unsigned long safetyMargin
safetyMargin == 0
\* std::array<ptime, 16 * MAX_MESSAGE_FREQ>
MemSize == 16 * MAX_MESSAGE_FREQ

\* ------------------------------------------------------------------------
\* unsigned long (64 bit) arithmetic on 16-bit limbs
\* ------------------------------------------------------------------------
Base == 65536

\* The unsigned long with value n, 0 <= n < 2^31.
U(n) == <<0, 0, n \div Base, n % Base>>

UZero == <<0, 0, 0, 0>>

UAdd(x, y) ==
    LET s4 == x[4] + y[4]
        s3 == x[3] + y[3] + (s4 \div Base)
        s2 == x[2] + y[2] + (s3 \div Base)
        s1 == x[1] + y[1] + (s2 \div Base)
    IN  <<s1 % Base, s2 % Base, s3 % Base, s4 % Base>>

\* Two's complement negation: 2^64 - x (mod 2^64).
UNeg(x) ==
    UAdd(<<Base - 1 - x[1], Base - 1 - x[2], Base - 1 - x[3], Base - 1 - x[4]>>, U(1))

USub(x, y) == UAdd(x, UNeg(y))

\* x * n (mod 2^64) for a small natural n (n < 2^15).
UMul(x, n) ==
    LET p4 == x[4] * n
        p3 == x[3] * n + (p4 \div Base)
        p2 == x[2] * n + (p3 \div Base)
        p1 == x[1] * n + (p2 \div Base)
    IN  <<p1 % Base, p2 % Base, p3 % Base, p4 % Base>>

\* x / 2 on unsigned long.
UHalf(x) ==
    <<x[1] \div 2,
      (x[2] \div 2) + (x[1] % 2) * (Base \div 2),
      (x[3] \div 2) + (x[2] % 2) * (Base \div 2),
      (x[4] \div 2) + (x[3] % 2) * (Base \div 2)>>

ULt(x, y) ==
    \/ x[1] < y[1]
    \/ x[1] = y[1] /\ x[2] < y[2]
    \/ x[1] = y[1] /\ x[2] = y[2] /\ x[3] < y[3]
    \/ x[1] = y[1] /\ x[2] = y[2] /\ x[3] = y[3] /\ x[4] < y[4]

ULe(x, y) == x = y \/ ULt(x, y)

UMin(x, y) == IF ULt(y, x) THEN y ELSE x

UMax(x, y) == IF ULt(x, y) THEN y ELSE x

\* Conversion of a signed int or long to unsigned long.
FromInt(i) == IF i >= 0 THEN U(i) ELSE UNeg(U(-i))

\* Narrowing of an unsigned long to unsigned int, widened again.
ToUInt(x) == <<0, 0, x[3], x[4]>>

\* Narrowing of an unsigned long to int: the low 32 bits, two's complement.
ToInt(x) ==
    IF x[3] >= Base \div 2
    THEN (x[3] - Base) * Base + x[4]
    ELSE x[3] * Base + x[4]

\* The smallest element of a non-empty set of unsigned longs (std::set order).
UMinOf(S) == CHOOSE p \in S : \A q \in S : ULe(p, q)

\* The elements of a set of unsigned longs in ascending order.
RECURSIVE Ascending(_)
Ascending(S) ==
    IF S = {} THEN <<>>
    ELSE LET p == UMinOf(S) IN <<p>> \o Ascending(S \ {p})


\* ------------------------------------------------------------------------
\* State
\* ------------------------------------------------------------------------
VARIABLES
    mNextMessageId,         \* unsigned long mNextMessageId = 1
    mPosition,              \* signed long mPosition = 0
    mBidPrices,             \* std::set<unsigned long>
    mAskPrices,
    mBidToOrder,            \* price -> Order*
    mAskToOrder,
    mBidOrderIdToOrder,     \* order id -> Order*
    mAskOrderIdToOrder,
    heap,                   \* the Order objects: address -> Order
    mMem,                   \* the timestamps from mHead up to mTail, oldest first
    mRollingMessageCount,   \* unsigned long mRollingMessageCount
    now,                    \* the clock, in units of 100 ms
    out,                    \* the commands sent by the latest callback, in order
    sent,                   \* the send times of the commands of the last PeriodLength
    noted,                  \* the time at which each command so far was noted
    last,                   \* the latest callback and what it found
    placed,                 \* every order inserted: side and volume not yet reported filled
    ub                      \* a null Order* has been dereferenced

vars == <<mNextMessageId, mPosition, mBidPrices, mAskPrices, mBidToOrder, mAskToOrder,
          mBidOrderIdToOrder, mAskOrderIdToOrder, heap, mMem, mRollingMessageCount,
          now, out, sent, noted, last, placed, ub>>

\* nullptr
NULL == 0

\* struct Order
Order(price, volume, orderId) == [price |-> price, volume |-> volume, orderId |-> orderId]

\* The program state as one record, threaded through the steps of a callback.
Machine ==
    [mNextMessageId |-> mNextMessageId, mPosition |-> mPosition,
     mBidPrices |-> mBidPrices, mAskPrices |-> mAskPrices,
     mBidToOrder |-> mBidToOrder, mAskToOrder |-> mAskToOrder,
     mBidOrderIdToOrder |-> mBidOrderIdToOrder, mAskOrderIdToOrder |-> mAskOrderIdToOrder,
     heap |-> heap, mMem |-> mMem, mRollingMessageCount |-> mRollingMessageCount,
     now |-> now, out |-> <<>>, ub |-> FALSE,
     numNewOrdersAllowed |-> 0, maximumSize |-> 0,
     priceAdjustment |-> UZero, liveCount |-> mRollingMessageCount,
     returned |-> 0, noted |-> noted, accesses |-> << >>]

\* std::unordered_map::erase
Erase(m, k) == [x \in DOMAIN m \ {k} |-> m[x]]

\* std::unordered_map::operator[] as an assignment
Put(m, k, v) == [x \in DOMAIN m \cup {k} |-> IF x = k THEN v ELSE m[x]]

\* std::unordered_map::operator[] as a read: a missing key is inserted with nullptr
Touch(m, k) == IF k \in DOMAIN m THEN m ELSE Put(m, k, NULL)

\* ------------------------------------------------------------------------
\* MessageFrequencyTracker
\* ------------------------------------------------------------------------
\* RemoveTimedOut with >= for >: an entry of exactly PeriodLength is dropped.
RECURSIVE RemoveTimedOutEarly(_, _)
RemoveTimedOutEarly(s, currentTime) ==
    IF s.mMem # <<>> /\ currentTime - Head(s.mMem) >= PeriodLength
    THEN RemoveTimedOutEarly([s EXCEPT !.mMem = Tail(@),
                                       !.mRollingMessageCount = @ - 1], currentTime)
    ELSE s

\* while (mHead != mTail && currentTime - *mHead > PeriodLength) { count--; ++mHead }
RECURSIVE RemoveTimedOut(_, _)
RemoveTimedOut(s, currentTime) ==
    IF s.mMem # <<>> /\ currentTime - Head(s.mMem) > PeriodLength
    THEN RemoveTimedOut([s EXCEPT !.mMem = Tail(@),
                                  !.mRollingMessageCount = @ - 1], currentTime)
    ELSE s

\* What the tracker holds when one of its two methods returns: the time the
\* method read, the count, the buffer from mHead to mTail, and every command
\* noted so far.
Access(s, method, currentTime) ==
    [s EXCEPT !.accesses = Append(@, [method |-> method, time |-> currentTime,
                                      count |-> s.mRollingMessageCount,
                                      mem |-> s.mMem, noted |-> s.noted])]

\* The backstop test of NoteMessage.
MustWait(count) == count > MAX_MESSAGE_FREQ

\* time_duration wait_for = currentTime - *mHead + milliseconds(100)
WaitFor(currentTime, head) == currentTime - head + BackstopSlack

NoteMessage(s) ==
    LET currentTime == s.now
        a == [s EXCEPT !.mMem = Append(@, currentTime),
                       !.mRollingMessageCount = @ + 1,
                       !.noted = Append(@, currentTime)]
        b == RemoveTimedOut(a, currentTime)
        c == IF MustWait(b.mRollingMessageCount)
             THEN [b EXCEPT !.now = @ + WaitFor(currentTime, Head(b.mMem))]
             ELSE b
    IN  Access(c, "NoteMessage", currentTime)

\* The value GetNonCancelMessagesAllowed returns for a live count.
NonCancelMessagesAllowed(count) ==
    LET maxOpenOrders == U(2 * NUM_CLONES)
        freeMessages == USub(U(MAX_MESSAGE_FREQ), U(count))
    IN  ToInt(UMax(UZero, UHalf(USub(USub(freeMessages, maxOpenOrders), U(safetyMargin)))))

\* GetNonCancelMessagesAllowed: expire, then leave the result in numNewOrdersAllowed.
GetNonCancelMessagesAllowed(s) ==
    LET b == Access(RemoveTimedOut(s, s.now), "GetNonCancelMessagesAllowed", s.now)
    IN  [b EXCEPT !.numNewOrdersAllowed = NonCancelMessagesAllowed(b.mRollingMessageCount),
                  !.returned = NonCancelMessagesAllowed(b.mRollingMessageCount),
                  !.liveCount = b.mRollingMessageCount]

\* ------------------------------------------------------------------------
\* Outbound commands: each is noted first and sent when NoteMessage returns
\* ------------------------------------------------------------------------
Emit(s, c) ==
    LET n == NoteMessage(s)
    IN  [n EXCEPT !.out = Append(@, [c EXCEPT !.at = n.now])]

Command(cmd, id, side, price, volume, lifespan) ==
    [cmd |-> cmd, id |-> id, side |-> side, price |-> price, volume |-> volume,
     lifespan |-> lifespan, at |-> 0]

SendCancelOrder(s, clientOrderId) ==
    Emit(s, Command("cancel", clientOrderId, "-", UZero, 0, "-"))

SendHedgeOrder(s, clientOrderId, side, price, volume) ==
    Emit(s, Command("hedge", clientOrderId, side, price, volume, "-"))

SendInsertOrder(s, clientOrderId, side, price, volume, lifespan) ==
    Emit(s, Command("insert", clientOrderId, side, price, volume, lifespan))

\* ------------------------------------------------------------------------
\* OrderBookMessageHandler
\* ------------------------------------------------------------------------
Min(a, b) == IF a < b THEN a ELSE b

\* Round with the fraction dropped instead of rounded.
RoundDropsFraction(x) == IF x >= 0 THEN x \div LOT_SIZE ELSE -((-x) \div LOT_SIZE)

\* std::round(x * (1.0 / LOT_SIZE)): halves go away from zero
Round(x) ==
    IF x >= 0 THEN (2 * x + LOT_SIZE) \div (2 * LOT_SIZE)
    ELSE -((2 * (-x) + LOT_SIZE) \div (2 * LOT_SIZE))

\* unsigned long priceAdjustment, after priceAdjustment *= TICK_SIZE_IN_CENTS
PriceAdjustment(position) ==
    LET ticks == IF position >= minPositionImbalance
                     THEN FromInt(-Round(position - minPositionImbalance))
                 ELSE IF position <= -minPositionImbalance
                     THEN FromInt(-Round(position + minPositionImbalance))
                 ELSE UZero
    IN  UMul(ticks, TICK_SIZE_IN_CENTS)

\* BidArbitragable with the comparison turned round.
BidArbitragableReversed(price, bestAskFut) == ULt(price, bestAskFut)

\* if (bestAskFut < price): the bid can be arbitraged
BidArbitragable(price, bestAskFut) == ULt(bestAskFut, price)

\* AskArbitragable with the comparison turned round.
AskArbitragableReversed(price, bestBidFut) == ULt(bestBidFut, price)

\* if (bestBidFut > price): the ask can be arbitraged
AskArbitragable(price, bestBidFut) == ULt(price, bestBidFut)

\* for (unsigned long price : mBidPrices) if (bestAskFut < price) SendCancelOrder(...)
RECURSIVE CancelArbitragableBids(_, _, _)
CancelArbitragableBids(s, prices, bestAskFut) ==
    IF prices = <<>> \/ s.ub THEN s
    ELSE IF BidArbitragable(Head(prices), bestAskFut)
    THEN LET t == [s EXCEPT !.mBidToOrder = Touch(@, Head(prices))]
             order == t.mBidToOrder[Head(prices)]
         IN  IF order \notin DOMAIN t.heap
             THEN [t EXCEPT !.ub = TRUE]
             ELSE CancelArbitragableBids(SendCancelOrder(t, t.heap[order].orderId),
                                         Tail(prices), bestAskFut)
    ELSE CancelArbitragableBids(s, Tail(prices), bestAskFut)

\* for (unsigned long price : mAskPrices) if (bestBidFut > price) SendCancelOrder(...)
RECURSIVE CancelArbitragableAsks(_, _, _)
CancelArbitragableAsks(s, prices, bestBidFut) ==
    IF prices = <<>> \/ s.ub THEN s
    ELSE IF AskArbitragable(Head(prices), bestBidFut)
    THEN LET t == [s EXCEPT !.mAskToOrder = Touch(@, Head(prices))]
             order == t.mAskToOrder[Head(prices)]
         IN  IF order \notin DOMAIN t.heap
             THEN [t EXCEPT !.ub = TRUE]
             ELSE CancelArbitragableAsks(SendCancelOrder(t, t.heap[order].orderId),
                                         Tail(prices), bestBidFut)
    ELSE CancelArbitragableAsks(s, Tail(prices), bestBidFut)

\* FrontBid without the additional spread.
FrontBidWithoutSpread(bestBidFut, bestAskFut, priceAdjustment) ==
    UMin(UAdd(bestBidFut, priceAdjustment), bestAskFut)

\* unsigned long frontBid, after the std::min with bestAskFut
FrontBid(bestBidFut, bestAskFut, priceAdjustment) ==
    UMin(USub(UAdd(bestBidFut, priceAdjustment), U(ADDITIONAL_SPREAD)), bestAskFut)

\* unsigned long frontAsk, after the std::max with bestBidFut
FrontAsk(bestBidFut, bestAskFut, priceAdjustment) ==
    UMax(UAdd(UAdd(bestAskFut, priceAdjustment), U(ADDITIONAL_SPREAD)), bestBidFut)

\* price > frontBid || price <= frontBid - NUM_CLONES * TICK_SIZE_IN_CENTS
BidOutsideBand(price, frontBid) ==
    \/ ULt(frontBid, price)
    \/ ULe(price, USub(frontBid, U(NUM_CLONES * TICK_SIZE_IN_CENTS)))

\* price < frontAsk || price >= frontAsk + NUM_CLONES * TICK_SIZE_IN_CENTS
AskOutsideBand(price, frontAsk) ==
    \/ ULt(price, frontAsk)
    \/ ULe(UAdd(frontAsk, U(NUM_CLONES * TICK_SIZE_IN_CENTS)), price)

\* The scan of mBidPrices: cancel what is outside the band, count every volume.
RECURSIVE ScanBids(_, _, _)
ScanBids(s, prices, frontBid) ==
    IF prices = <<>> \/ s.ub THEN s
    ELSE LET price == ToUInt(Head(prices))
             t == [s EXCEPT !.mBidToOrder = Touch(@, price)]
             order == t.mBidToOrder[price]
         IN  IF order = NULL THEN ScanBids(t, Tail(prices), frontBid)
             ELSE IF order \notin DOMAIN t.heap THEN [t EXCEPT !.ub = TRUE]
             ELSE LET c == IF BidOutsideBand(price, frontBid)
                           THEN SendCancelOrder(t, t.heap[order].orderId)
                           ELSE t
                  IN  ScanBids([c EXCEPT !.maximumSize = @ - t.heap[order].volume],
                               Tail(prices), frontBid)

\* The scan of mAskPrices.
RECURSIVE ScanAsks(_, _, _)
ScanAsks(s, prices, frontAsk) ==
    IF prices = <<>> \/ s.ub THEN s
    ELSE LET price == ToUInt(Head(prices))
             t == [s EXCEPT !.mAskToOrder = Touch(@, price)]
             order == t.mAskToOrder[price]
         IN  IF order = NULL THEN ScanAsks(t, Tail(prices), frontAsk)
             ELSE IF order \notin DOMAIN t.heap THEN [t EXCEPT !.ub = TRUE]
             ELSE LET c == IF AskOutsideBand(price, frontAsk)
                           THEN SendCancelOrder(t, t.heap[order].orderId)
                           ELSE t
                  IN  ScanAsks([c EXCEPT !.maximumSize = @ - t.heap[order].volume],
                               Tail(prices), frontAsk)

\* BidLevel with the levels two ticks apart.
BidLevelTwoTicks(frontBid, offset) ==
    ToUInt(USub(frontBid, U(2 * offset * TICK_SIZE_IN_CENTS)))

\* unsigned int price = frontBid - offset * TICK_SIZE_IN_CENTS
BidLevel(frontBid, offset) == ToUInt(USub(frontBid, U(offset * TICK_SIZE_IN_CENTS)))

\* unsigned int price = frontAsk + offset * TICK_SIZE_IN_CENTS
AskLevel(frontAsk, offset) == ToUInt(UAdd(frontAsk, U(offset * TICK_SIZE_IN_CENTS)))

\* LadderContinues without the test of the budget.
LadderContinuesWithoutBudget(offset, maximumSize, numNewOrdersAllowed) ==
    offset < NUM_CLONES /\ maximumSize > 0

\* offset < NUM_CLONES && maximumSize > 0 && numNewOrdersAllowed > 0
LadderContinues(offset, maximumSize, numNewOrdersAllowed) ==
    offset < NUM_CLONES /\ maximumSize > 0 /\ numNewOrdersAllowed > 0

\* InsertVolume that always takes a whole lot.
InsertVolumeWholeLot(maximumSize) == LOT_SIZE

\* std::min((long)LOT_SIZE, maximumSize)
InsertVolume(maximumSize) == Min(LOT_SIZE, maximumSize)

\* The body of the bid ladder loop for a price that mBidPrices does not hold.
InsertBid(s, price) ==
    LET volume == InsertVolume(s.maximumSize)
        orderId == s.mNextMessageId
        a == SendInsertOrder([s EXCEPT !.mNextMessageId = @ + 1],
                             orderId, "BUY", price, volume, "GOOD_FOR_DAY")
    IN  [a EXCEPT !.numNewOrdersAllowed = @ - 1,
                  !.heap = Put(@, orderId, Order(price, volume, orderId)),
                  !.mBidPrices = @ \cup {price},
                  !.mBidToOrder = Put(@, price, orderId),
                  !.mBidOrderIdToOrder = Put(@, orderId, orderId),
                  !.maximumSize = @ - volume]

\* The body of the ask ladder loop for a price that mAskPrices does not hold.
InsertAsk(s, price) ==
    LET volume == InsertVolume(s.maximumSize)
        orderId == s.mNextMessageId
        a == SendInsertOrder([s EXCEPT !.mNextMessageId = @ + 1],
                             orderId, "SELL", price, volume, "GOOD_FOR_DAY")
    IN  [a EXCEPT !.numNewOrdersAllowed = @ - 1,
                  !.heap = Put(@, orderId, Order(price, volume, orderId)),
                  !.mAskPrices = @ \cup {price},
                  !.mAskToOrder = Put(@, price, orderId),
                  !.mAskOrderIdToOrder = Put(@, orderId, orderId),
                  !.maximumSize = @ - volume]

\* BidLadder without the test mBidPrices.count(price) == 0.
RECURSIVE BidLadderAnyPrice(_, _, _)
BidLadderAnyPrice(s, offset, frontBid) ==
    IF LadderContinues(offset, s.maximumSize, s.numNewOrdersAllowed)
    THEN BidLadderAnyPrice(InsertBid(s, BidLevel(frontBid, offset)), offset + 1, frontBid)
    ELSE s

\* for (offset = 0; offset < NUM_CLONES && maximumBidSize > 0 && numNewOrdersAllowed > 0; offset++)
RECURSIVE BidLadder(_, _, _)
BidLadder(s, offset, frontBid) ==
    IF LadderContinues(offset, s.maximumSize, s.numNewOrdersAllowed)
    THEN LET price == BidLevel(frontBid, offset)
         IN  IF price \notin s.mBidPrices
             THEN BidLadder(InsertBid(s, price), offset + 1, frontBid)
             ELSE BidLadder(s, offset + 1, frontBid)
    ELSE s

RECURSIVE AskLadder(_, _, _)
AskLadder(s, offset, frontAsk) ==
    IF LadderContinues(offset, s.maximumSize, s.numNewOrdersAllowed)
    THEN LET price == AskLevel(frontAsk, offset)
         IN  IF price \notin s.mAskPrices
             THEN AskLadder(InsertAsk(s, price), offset + 1, frontAsk)
             ELSE AskLadder(s, offset + 1, frontAsk)
    ELSE s

\* long maximumBidSize = POSITION_LIMIT - mPosition
MaximumBidSize(position) == POSITION_LIMIT - position

\* long maximumAskSize = POSITION_LIMIT + mPosition
MaximumAskSize(position) == POSITION_LIMIT + position

\* if (bestBidFut != 0) { ... }
AdjustBidSide(s, bestBidFut, bestAskFut, priceAdjustment) ==
    IF bestBidFut = UZero \/ s.ub THEN s
    ELSE LET frontBid == FrontBid(bestBidFut, bestAskFut, priceAdjustment)
             a == [s EXCEPT !.maximumSize = MaximumBidSize(s.mPosition)]
             b == ScanBids(a, Ascending(a.mBidPrices), frontBid)
         IN  IF b.ub THEN b ELSE BidLadder(b, 0, frontBid)

\* if (bestAskFut != 0) { ... }
AdjustAskSide(s, bestBidFut, bestAskFut, priceAdjustment) ==
    IF bestAskFut = UZero \/ s.ub THEN s
    ELSE LET frontAsk == FrontAsk(bestBidFut, bestAskFut, priceAdjustment)
             a == [s EXCEPT !.maximumSize = MaximumAskSize(s.mPosition)]
             b == ScanAsks(a, Ascending(a.mAskPrices), frontAsk)
         IN  IF b.ub THEN b ELSE AskLadder(b, 0, frontAsk)

\* The whole handler, for the best bid and best ask of the snapshot.
OrderBook(s, instrument, bestBidFut, bestAskFut) ==
    IF instrument # "FUT" THEN s
    ELSE LET a == CancelArbitragableBids(s, Ascending(s.mBidPrices), bestAskFut)
             b == CancelArbitragableAsks(a, Ascending(a.mAskPrices), bestBidFut)
             priceAdjustment == PriceAdjustment(b.mPosition)
             c == IF b.ub THEN b
                  ELSE [GetNonCancelMessagesAllowed(b) EXCEPT !.priceAdjustment = priceAdjustment]
             d == AdjustBidSide(c, bestBidFut, bestAskFut, priceAdjustment)
         IN  AdjustAskSide(d, bestBidFut, bestAskFut, priceAdjustment)

\* ------------------------------------------------------------------------
\* OrderFilledMessageHandler, OrderStatusMessageHandler, ErrorMessageHandler
\* ------------------------------------------------------------------------
\* OrderFilled without mNextMessageId++ after the hedge.
OrderFilledKeepsId(s, clientOrderId, volume) ==
    IF clientOrderId \in DOMAIN s.mBidOrderIdToOrder
    THEN LET a == SendHedgeOrder(s, s.mNextMessageId, "SELL", "MIN_BID_NEAREST_TICK", volume)
         IN  [a EXCEPT !.mPosition = @ + volume]
    ELSE LET a == SendHedgeOrder(s, s.mNextMessageId, "BUY", "MAX_ASK_NEAREST_TICK", volume)
         IN  [a EXCEPT !.mPosition = @ - volume]

OrderFilled(s, clientOrderId, volume) ==
    IF clientOrderId \in DOMAIN s.mBidOrderIdToOrder
    THEN LET a == SendHedgeOrder(s, s.mNextMessageId, "SELL", "MIN_BID_NEAREST_TICK", volume)
         IN  [a EXCEPT !.mNextMessageId = @ + 1, !.mPosition = @ + volume]
    ELSE LET a == SendHedgeOrder(s, s.mNextMessageId, "BUY", "MAX_ASK_NEAREST_TICK", volume)
         IN  [a EXCEPT !.mNextMessageId = @ + 1, !.mPosition = @ - volume]

\* RemoveBid without mBidPrices.erase(order->price).
RemoveBidKeepsPrice(s, clientOrderId) ==
    LET order == s.mBidOrderIdToOrder[clientOrderId]
        a == [s EXCEPT !.mBidOrderIdToOrder = Erase(@, clientOrderId)]
    IN  IF order = NULL THEN a
        ELSE IF order \notin DOMAIN a.heap THEN [a EXCEPT !.ub = TRUE]
        ELSE [a EXCEPT !.mBidToOrder = Erase(@, a.heap[order].price),
                       !.heap = Erase(@, order)]

\* The bid branch with remainingVolume == 0: erase the order from the three views.
RemoveBid(s, clientOrderId) ==
    LET order == s.mBidOrderIdToOrder[clientOrderId]
        a == [s EXCEPT !.mBidOrderIdToOrder = Erase(@, clientOrderId)]
    IN  IF order = NULL THEN a
        ELSE IF order \notin DOMAIN a.heap THEN [a EXCEPT !.ub = TRUE]
        ELSE [a EXCEPT !.mBidToOrder = Erase(@, a.heap[order].price),
                       !.mBidPrices = @ \ {a.heap[order].price},
                       !.heap = Erase(@, order)]

\* The ask branch with remainingVolume == 0.
RemoveAsk(s, clientOrderId) ==
    LET order == s.mAskOrderIdToOrder[clientOrderId]
        a == [s EXCEPT !.mAskOrderIdToOrder = Erase(@, clientOrderId)]
    IN  IF order = NULL THEN a
        ELSE IF order \notin DOMAIN a.heap THEN [a EXCEPT !.ub = TRUE]
        ELSE [a EXCEPT !.mAskToOrder = Erase(@, a.heap[order].price),
                       !.mAskPrices = @ \ {a.heap[order].price},
                       !.heap = Erase(@, order)]

\* SetVolume that leaves the recorded volume as it is.
SetVolumeKeepsVolume(s, order, remainingVolume) ==
    IF order \notin DOMAIN s.heap THEN [s EXCEPT !.ub = TRUE] ELSE s

\* mBidOrderIdToOrder[clientOrderId]->volume = remainingVolume (and the ask twin)
SetVolume(s, order, remainingVolume) ==
    IF order \notin DOMAIN s.heap THEN [s EXCEPT !.ub = TRUE]
    ELSE [s EXCEPT !.heap[order].volume = remainingVolume]

\* OrderStatus reading mBidOrderIdToOrder[clientOrderId] for an unknown order.
OrderStatusTouchesUnknown(s, clientOrderId, remainingVolume) ==
    IF clientOrderId \in DOMAIN s.mBidOrderIdToOrder
    THEN IF remainingVolume = 0
         THEN RemoveBid(s, clientOrderId)
         ELSE SetVolume(s, s.mBidOrderIdToOrder[clientOrderId], remainingVolume)
    ELSE IF clientOrderId \in DOMAIN s.mAskOrderIdToOrder
    THEN IF remainingVolume = 0
         THEN RemoveAsk(s, clientOrderId)
         ELSE SetVolume(s, s.mAskOrderIdToOrder[clientOrderId], remainingVolume)
    ELSE [s EXCEPT !.mBidOrderIdToOrder = Touch(@, clientOrderId)]

\* if (bid) {...} else if (ask) {...} else { unknown order: logged }
OrderStatus(s, clientOrderId, remainingVolume) ==
    IF clientOrderId \in DOMAIN s.mBidOrderIdToOrder
    THEN IF remainingVolume = 0
         THEN RemoveBid(s, clientOrderId)
         ELSE SetVolume(s, s.mBidOrderIdToOrder[clientOrderId], remainingVolume)
    ELSE IF clientOrderId \in DOMAIN s.mAskOrderIdToOrder
    THEN IF remainingVolume = 0
         THEN RemoveAsk(s, clientOrderId)
         ELSE SetVolume(s, s.mAskOrderIdToOrder[clientOrderId], remainingVolume)
    ELSE s

\* ErrorMessage that only logs.
ErrorMessageOnlyLogs(s, clientOrderId) == s

\* if (clientOrderId != 0 && (... count == 1)) OrderStatusMessageHandler(clientOrderId, 0, 0, 0)
ErrorMessage(s, clientOrderId) ==
    IF /\ clientOrderId # 0
       /\ \/ clientOrderId \in DOMAIN s.mAskOrderIdToOrder
          \/ clientOrderId \in DOMAIN s.mBidOrderIdToOrder
    THEN OrderStatus(s, clientOrderId, 0)
    ELSE s

\* ------------------------------------------------------------------------
\* HedgeFilledMessageHandler, TradeTicksMessageHandler, DisconnectHandler
\* ------------------------------------------------------------------------
\* HedgeFilled that books the hedge volume on the position.
HedgeFilledBooksPosition(s, clientOrderId, price, volume) ==
    [s EXCEPT !.mPosition = @ - volume]

\* The handler only logs the hedge fill.
HedgeFilled(s, clientOrderId, price, volume) == s

\* TradeTicks that cancels order 1 on every tick.
TradeTicksCancels(s, instrument) == SendCancelOrder(s, 1)

\* The handler only logs the trade ticks.
TradeTicks(s, instrument) == s

\* The handler logs and hands over to BaseAutoTrader::DisconnectHandler, which
\* holds no state of the AutoTrader.
Disconnect(s) == s

\* ------------------------------------------------------------------------
\* Bounds of the model and the inputs of the callbacks
\* ------------------------------------------------------------------------
\* Callbacks that can send are taken while mNextMessageId <= MaxOrderId ...
MaxOrderId == 7
\* ... and while at most MaxLive commands have been noted since time 0.
MaxLive == 8
\* Fill, status and error callbacks name the order ids up to MaxExecId.
MaxExecId == 2
\* ... and while the clock reads at most MaxTime.
MaxTime == 12

\* Best bid and best ask of the reference snapshots, in cents.
Books == { <<U(10000), U(10100)>>, <<U(9700), U(9800)>>, <<UZero, U(9800)>> }

\* A reference snapshot whose best bid is no more than spread plus ladder depth.
LowBooks == { <<U(100), U(200)>> }

\* The volume a fill notification reports: a whole order.
FillVolumes == {LOT_SIZE}

\* Remaining volumes a status update reports.
StatusRemaining == {0, 5}

Instruments == {"FUT", "ETF"}

\* Volumes a hedge fill reports; 0 (at price 0) is the unsuccessful hedge.
HedgeVolumes == {0, LOT_SIZE}

\* ------------------------------------------------------------------------
\* Actions
\* ------------------------------------------------------------------------
\* The send times of the commands that are at most PeriodLength old at time t.
Recent(times, t) == SelectSeq(times, LAMBDA u : t - u <= PeriodLength)

SendTimes(commands) == [i \in 1 .. Len(commands) |-> commands[i].at]

\* The orders the insert commands of a callback placed at the venue.
Placements(commands) ==
    [id \in {commands[i].id : i \in {j \in 1 .. Len(commands) : commands[j].cmd = "insert"}} |->
        LET c == CHOOSE c \in {commands[i] : i \in 1 .. Len(commands)} :
                     c.cmd = "insert" /\ c.id = id
        IN  [side |-> c.side, left |-> c.volume]]

Callback(handler, instrument, bestBid, bestAsk, id, volume, remaining, s) ==
    [handler |-> handler, instrument |-> instrument, bestBid |-> bestBid, bestAsk |-> bestAsk,
     id |-> id, volume |-> volume, remaining |-> remaining,
     mPosition |-> mPosition, mNextMessageId |-> mNextMessageId,
     resting |-> Cardinality(mBidPrices) + Cardinality(mAskPrices),
     liveCount |-> s.liveCount,
     numNewOrdersAllowed |-> s.returned,
     priceAdjustment |-> s.priceAdjustment,
     accesses |-> s.accesses, sequenceNumber |-> 0,
     replay |-> /\ handler = "OrderBook" /\ instrument = "FUT"
                /\ last.handler = "OrderBook" /\ last.instrument = "FUT"
                /\ last.bestBid = bestBid /\ last.bestAsk = bestAsk]

\* The state a callback leaves behind: s is the machine when the callback returns.
Commit(s, callback) ==
    /\ mNextMessageId' = s.mNextMessageId
    /\ mPosition' = s.mPosition
    /\ mBidPrices' = s.mBidPrices
    /\ mAskPrices' = s.mAskPrices
    /\ mBidToOrder' = s.mBidToOrder
    /\ mAskToOrder' = s.mAskToOrder
    /\ mBidOrderIdToOrder' = s.mBidOrderIdToOrder
    /\ mAskOrderIdToOrder' = s.mAskOrderIdToOrder
    /\ heap' = s.heap
    /\ mMem' = s.mMem
    /\ mRollingMessageCount' = s.mRollingMessageCount
    /\ now' = s.now
    /\ out' = s.out
    /\ sent' = Recent(sent \o SendTimes(s.out), s.now)
    /\ noted' = s.noted
    /\ last' = callback
    /\ ub' = s.ub

CanSend ==
    /\ ~ub
    /\ mNextMessageId <= MaxOrderId
    /\ Len(SelectSeq(mMem, LAMBDA u : u >= 0)) <= MaxLive
    /\ now <= MaxTime

\* An order book message whose best bid and best ask are one of `books`.
OrderBookMessage(books) ==
    /\ CanSend
    /\ \E instrument \in Instruments, book \in books :
         LET s == OrderBook(Machine, instrument, book[1], book[2])
         IN  /\ Commit(s, Callback("OrderBook", instrument, book[1], book[2], 0, 0, 0, s))
             /\ placed' = Placements(s.out) @@ placed

OrderBookMessageHandler == OrderBookMessage(Books)

\* The same handler when the reference also trades at a few ticks.
OrderBookMessageHandlerLowPrices == OrderBookMessage(Books \cup LowBooks)

\* The venue fills only orders the strategy inserted, never beyond their volume.
OrderFilledMessageHandler ==
    /\ CanSend
    /\ \E clientOrderId \in DOMAIN placed \cap (1 .. MaxExecId), volume \in FillVolumes :
         /\ volume <= placed[clientOrderId].left
         /\ LET s == OrderFilled(Machine, clientOrderId, volume)
            IN  Commit(s, Callback("OrderFilled", "-", UZero, UZero, clientOrderId, volume, 0, s))
         /\ placed' = [placed EXCEPT ![clientOrderId].left = @ - volume]

OrderStatusMessageHandler ==
    /\ ~ub
    /\ \E clientOrderId \in 1 .. Min(mNextMessageId - 1, MaxExecId), remainingVolume \in StatusRemaining :
         LET s == OrderStatus(Machine, clientOrderId, remainingVolume)
         IN  Commit(s, Callback("OrderStatus", "-", UZero, UZero, clientOrderId, 0,
                                remainingVolume, s))
    /\ UNCHANGED placed

ErrorMessageHandler ==
    /\ ~ub
    /\ \E clientOrderId \in 0 .. Min(mNextMessageId - 1, MaxExecId) :
         LET s == ErrorMessage(Machine, clientOrderId)
         IN  Commit(s, Callback("ErrorMessage", "-", UZero, UZero, clientOrderId, 0, 0, s))
    /\ UNCHANGED placed

\* The ids of the hedge orders sent so far: every id handed out that is no insert.
HedgeIds == (1 .. mNextMessageId - 1) \ DOMAIN placed

HedgeFilledMessageHandler ==
    /\ ~ub
    /\ \E clientOrderId \in HedgeIds, volume \in HedgeVolumes :
         LET price == IF volume = 0 THEN UZero ELSE U(10000)
             s == HedgeFilled(Machine, clientOrderId, price, volume)
         IN  Commit(s, Callback("HedgeFilled", "-", price, price, clientOrderId, volume, 0, s))
    /\ UNCHANGED placed

TradeTicksMessageHandler ==
    /\ ~ub
    /\ \E instrument \in Instruments :
         LET s == TradeTicks(Machine, instrument)
         IN  Commit(s, Callback("TradeTicks", instrument, UZero, UZero, 0, 0, 0, s))
    /\ UNCHANGED placed

DisconnectHandler ==
    /\ ~ub
    /\ LET s == Disconnect(Machine)
       IN  Commit(s, Callback("Disconnect", "-", UZero, UZero, 0, 0, 0, s))
    /\ UNCHANGED placed

\* ------------------------------------------------------------------------
\* Specifications
\* ------------------------------------------------------------------------
NoCallback ==
    [handler |-> "none", instrument |-> "-", bestBid |-> UZero, bestAsk |-> UZero,
     id |-> 0, volume |-> 0, remaining |-> 0, mPosition |-> 0, mNextMessageId |-> 1,
     resting |-> 0, liveCount |-> 0, numNewOrdersAllowed |-> 0,
     priceAdjustment |-> UZero, accesses |-> << >>, sequenceNumber |-> 0,
     replay |-> FALSE]

\* The trader at time 0 with a given position, no order resting, and `count`
\* commands sent one time unit earlier.
Start(position, count) ==
    /\ mNextMessageId = 1
    /\ mPosition = position
    /\ mBidPrices = {} /\ mAskPrices = {}
    /\ mBidToOrder = << >> /\ mAskToOrder = << >>
    /\ mBidOrderIdToOrder = << >> /\ mAskOrderIdToOrder = << >>
    /\ heap = << >>
    /\ mMem = [i \in 1 .. count |-> -1]
    /\ mRollingMessageCount = count
    /\ now = 0
    /\ out = << >>
    /\ sent = [i \in 1 .. count |-> -1]
    /\ noted = [i \in 1 .. count |-> -1]
    /\ last = NoCallback
    /\ placed = << >>
    /\ ub = FALSE

\* The state after construction.
Init == Start(0, 0)

Next ==
    \/ OrderBookMessageHandler
    \/ OrderFilledMessageHandler
    \/ OrderStatusMessageHandler
    \/ ErrorMessageHandler

Spec == Init /\ [][Next]_vars

\* The quoting engine alone, started with any position within the limit or
\* with any number of commands already in the window: reference snapshots
\* arrive and the venue reports nothing.
InitQuote ==
    \/ \E position \in -POSITION_LIMIT .. POSITION_LIMIT : Start(position, 0)
    \/ \E count \in 0 .. MAX_MESSAGE_FREQ : Start(0, count)

SpecQuote == InitQuote /\ [][OrderBookMessageHandler]_vars

\* The quoting engine alone, the reference also trading at a few ticks.
SpecLowPrices == InitQuote /\ [][OrderBookMessageHandlerLowPrices]_vars

\* The trader started close to the position limit, all callbacks arriving.
WarmPositions == {-95, 95}

InitWarm == \E position \in WarmPositions : Start(position, 0)

SpecWarm == InitWarm /\ [][Next]_vars

\* The steady clock read by the tracker moves on between two callbacks.
TickSteps == {5, 6}

Tick ==
    /\ ~ub
    /\ \E d \in TickSteps :
         /\ now + d <= MaxTime
         /\ now' = now + d
    /\ sent' = Recent(sent, now')
    /\ UNCHANGED <<mNextMessageId, mPosition, mBidPrices, mAskPrices, mBidToOrder,
                   mAskToOrder, mBidOrderIdToOrder, mAskOrderIdToOrder, heap, mMem,
                   mRollingMessageCount, out, noted, last, placed, ub>>

\* The quoting engine and the clock, after no command or after a busy second.
ClockCounts == {0, 40, 47}

InitClock == \E count \in ClockCounts : Start(0, count)

NextClock ==
    \/ OrderBookMessageHandler
    \/ Tick

SpecClock == InitClock /\ [][NextClock]_vars

\* Every callback of the AutoTrader, from the state after construction.
NextAll ==
    \/ Next
    \/ HedgeFilledMessageHandler
    \/ TradeTicksMessageHandler
    \/ DisconnectHandler

SpecAll == Init /\ [][NextAll]_vars

\* The reference book comes to rest: after at most one update on another book
\* every FUT update carries SettleBook, no fill and no error arrives, the venue
\* answers cancels, and time passes.
SettleBook == <<U(10100), U(10200)>>

SettlePositions == {0, 80}

SettleCounts == {0, 47}

InitSettle == \E position \in SettlePositions, count \in SettleCounts : Start(position, count)

\* Updates are taken while the commands of the running period stay few.
FewLive == ~ub /\ Len(SelectSeq(mMem, LAMBDA u : u >= 0)) <= MaxLive

\* The one update on another book, before anything else was called back.
EarlierUpdate ==
    /\ FewLive
    /\ last.handler = "none"
    /\ \E book \in Books :
         LET s == OrderBook(Machine, "FUT", book[1], book[2])
         IN  /\ Commit(s, Callback("OrderBook", "FUT", book[1], book[2], 0, 0, 0, s))
             /\ placed' = Placements(s.out) @@ placed

\* An update on SettleBook; of its sequence number the parity is kept.
SettleUpdate ==
    /\ FewLive
    /\ LET s == OrderBook(Machine, "FUT", SettleBook[1], SettleBook[2])
           callback == Callback("OrderBook", "FUT", SettleBook[1], SettleBook[2], 0, 0, 0, s)
       IN  /\ Commit(s, [callback EXCEPT !.sequenceNumber = 1 - last.sequenceNumber])
           /\ placed' = Placements(s.out) @@ placed

\* The venue answers a cancel of the latest update: the order has nothing left.
CancelAnswered ==
    /\ ~ub
    /\ \E i \in 1 .. Len(out) :
         /\ out[i].cmd = "cancel"
         /\ out[i].id \in DOMAIN mBidOrderIdToOrder \cup DOMAIN mAskOrderIdToOrder
         /\ LET s == OrderStatus(Machine, out[i].id, 0)
                callback == Callback("OrderStatus", "-", UZero, UZero, out[i].id, 0, 0, s)
            IN  Commit(s, [callback EXCEPT !.sequenceNumber = last.sequenceNumber])
    /\ UNCHANGED placed

\* More than a period passes with no callback.  Times are kept relative to the
\* reading of the clock: the clock reads 0 again, every entry of the buffer is
\* older than PeriodLength, and the records of what was sent and noted within
\* the period are empty.
Elapse ==
    /\ ~ub
    /\ now' = 0
    /\ mMem' = [i \in 1 .. Len(mMem) |-> -(PeriodLength + 1)]
    /\ sent' = << >>
    /\ noted' = << >>
    /\ UNCHANGED <<mNextMessageId, mPosition, mBidPrices, mAskPrices, mBidToOrder,
                   mAskToOrder, mBidOrderIdToOrder, mAskOrderIdToOrder, heap,
                   mRollingMessageCount, out, last, placed, ub>>

NextSettle ==
    \/ EarlierUpdate
    \/ SettleUpdate
    \/ CancelAnswered
    \/ Elapse

\* Updates keep arriving: the parity of the latest sequence number keeps changing.
UpdatesKeepArriving ==
    /\ []<>(last.sequenceNumber = 0)
    /\ []<>(last.sequenceNumber = 1)

\* Updates keep arriving, cancels keep being answered, time keeps passing.
SpecSettle ==
    /\ InitSettle /\ [][NextSettle]_vars
    /\ UpdatesKeepArriving /\ SF_vars(CancelAnswered) /\ WF_vars(Elapse)

\* ------------------------------------------------------------------------
\* Claims
\* ------------------------------------------------------------------------
IsFutUpdate == last.handler = "OrderBook" /\ last.instrument = "FUT"

Cancelled(id) == \E i \in 1 .. Len(out) : out[i].cmd = "cancel" /\ out[i].id = id

Inserts == {i \in 1 .. Len(out) : out[i].cmd = "insert"}

\* The three views of one side hold the same orders.
SideConsistent(prices, toOrder, idToOrder) ==
    /\ DOMAIN toOrder = prices
    /\ \A p \in prices :
         /\ toOrder[p] # NULL
         /\ toOrder[p] \in DOMAIN heap
         /\ heap[toOrder[p]].price = p
         /\ heap[toOrder[p]].orderId \in DOMAIN idToOrder
         /\ idToOrder[heap[toOrder[p]].orderId] = toOrder[p]
    /\ \A id \in DOMAIN idToOrder :
         /\ idToOrder[id] \in DOMAIN heap
         /\ heap[idToOrder[id]].orderId = id
         /\ heap[idToOrder[id]].price \in prices
         /\ toOrder[heap[idToOrder[id]].price] = idToOrder[id]
    /\ Cardinality(prices) = Cardinality(DOMAIN idToOrder)
    /\ Cardinality(prices) = Cardinality(DOMAIN toOrder)

\* C1: on each side the price set, the price-to-order map and the id-to-order
\* map describe the same orders in every reachable state, and no null or
\* dangling Order* is ever dereferenced.
C1_RegistryConsistent ==
    /\ ~ub
    /\ SideConsistent(mBidPrices, mBidToOrder, mBidOrderIdToOrder)
    /\ SideConsistent(mAskPrices, mAskToOrder, mAskOrderIdToOrder)

\* A zero-remaining status has just removed a bid while other orders of both
\* sides stay registered.
C1_Witness ==
    /\ last.handler = "OrderStatus" /\ last.remaining = 0
    /\ last.id \in DOMAIN placed /\ placed[last.id].side = "BUY"
    /\ last.id \notin DOMAIN mBidOrderIdToOrder
    /\ last.resting > Cardinality(mBidPrices) + Cardinality(mAskPrices)
    /\ mBidPrices # {} /\ mAskPrices # {}

\* C2: a fill notification for an order the strategy inserted moves the
\* position by the fill volume, up for an order inserted as a buy and down for
\* one inserted as a sell, and sends exactly one hedge of that volume on the
\* opposite side.
C2_FillMovesPositionAndHedges ==
    (last.handler = "OrderFilled" /\ last.id \in DOMAIN placed) =>
        /\ mPosition = last.mPosition +
               (IF placed[last.id].side = "BUY" THEN last.volume ELSE -last.volume)
        /\ Len(out) = 1
        /\ out[1].cmd = "hedge"
        /\ out[1].volume = last.volume
        /\ out[1].side = (IF placed[last.id].side = "BUY" THEN "SELL" ELSE "BUY")

C3_RateLaw == Len(sent) <= MAX_MESSAGE_FREQ

\* C5: handling again the FUT snapshot that was handled just before, with no
\* other callback in between, sends no insert and no cancel.
C5_ReplayIsSilent == last.replay => out = << >>

\* C6: the position stays within the position limit on both sides.
C6_PositionWithinLimit ==
    -POSITION_LIMIT <= mPosition /\ mPosition <= POSITION_LIMIT

\* What a command says, apart from its order id and its send time.
Shape(c) ==
    [cmd |-> c.cmd, side |-> c.side, price |-> c.price, volume |-> c.volume,
     lifespan |-> c.lifespan]

Shapes == [i \in 1 .. Len(out) |-> Shape(out[i])]

LadderInsert(side, price) ==
    [cmd |-> "insert", side |-> side, price |-> price, volume |-> LOT_SIZE,
     lifespan |-> "GOOD_FOR_DAY"]

Abs(x) == IF x < 0 THEN -x ELSE x

\* The update found no resting order and an empty rate window.
OnEmptyBook == IsFutUpdate /\ last.resting = 0 /\ last.liveCount = 0

\* C7: on empty registries, with |position| <= 50, an empty rate window and a
\* reference book with 0 < bid < ask and bid above (NUM_CLONES + 1) ticks, the
\* update sends no cancel and exactly NUM_CLONES buys at bid - spread - k ticks
\* and NUM_CLONES sells at ask + spread + k ticks, each of LOT_SIZE and good for
\* day; for 10000/10100 these are 9900/9800/9700 and 10200/10300/10400.
C7_LadderOnEmptyBook ==
    /\ ( /\ OnEmptyBook
         /\ Abs(last.mPosition) <= minPositionImbalance
         /\ ULt(UZero, last.bestBid) /\ ULt(last.bestBid, last.bestAsk)
         /\ ULt(U((NUM_CLONES + 1) * TICK_SIZE_IN_CENTS), last.bestBid) )
       => Shapes =
            [k \in 1 .. 2 * NUM_CLONES |->
                IF k <= NUM_CLONES
                THEN LadderInsert("BUY", USub(last.bestBid,
                         U(ADDITIONAL_SPREAD + (k - 1) * TICK_SIZE_IN_CENTS)))
                ELSE LadderInsert("SELL", UAdd(last.bestAsk,
                         U(ADDITIONAL_SPREAD + (k - NUM_CLONES - 1) * TICK_SIZE_IN_CENTS)))]
    /\ ( /\ OnEmptyBook
         /\ Abs(last.mPosition) <= minPositionImbalance
         /\ last.bestBid = U(10000) /\ last.bestAsk = U(10100) )
       => [i \in 1 .. Len(out) |-> <<out[i].cmd, out[i].side, out[i].price>>] =
            << <<"insert", "BUY", U(9900)>>, <<"insert", "BUY", U(9800)>>,
               <<"insert", "BUY", U(9700)>>, <<"insert", "SELL", U(10200)>>,
               <<"insert", "SELL", U(10300)>>, <<"insert", "SELL", U(10400)>> >>

\* The 10000/10100 snapshot has been handled on empty registries at position 50.
C7_Witness ==
    /\ OnEmptyBook
    /\ last.mPosition = minPositionImbalance
    /\ last.bestBid = U(10000) /\ last.bestAsk = U(10100)
    /\ Len(out) = 2 * NUM_CLONES
    /\ Cardinality(mBidPrices) = NUM_CLONES /\ Cardinality(mAskPrices) = NUM_CLONES

Sign(x) == IF x > 0 THEN 1 ELSE IF x < 0 THEN -1 ELSE 0

\* round(n / LOT_SIZE) for n >= 0, halves away from zero.
RoundedLots(n) == (2 * n + LOT_SIZE) \div (2 * LOT_SIZE)

\* The skew the law gives for a position, in ticks.
SkewTicks(position) ==
    IF Abs(position) <= minPositionImbalance THEN 0
    ELSE -Sign(position) * RoundedLots(Abs(position) - minPositionImbalance)

\* The magnitude of a two's-complement 64-bit value.
Magnitude(x) == IF x[1] >= Base \div 2 THEN UNeg(x) ELSE x

\* The prices of the inserts of one side that the callback sent, in order.
InsertPrices(side) ==
    LET sel == SelectSeq(out, LAMBDA c : c.cmd = "insert" /\ c.side = side)
    IN  [i \in 1 .. Len(sel) |-> sel[i].price]

\* Prices step away from front by one tick per level.
Stepped(prices, front, step) ==
    /\ Len(prices) > 0
    /\ \A k \in 1 .. Len(prices) :
         prices[k] = UAdd(front, FromInt((k - 1) * step))

SkewedAt80 ==
    /\ OnEmptyBook /\ last.mPosition = 80
    /\ last.bestBid = UZero \/ ULe(U(7 * TICK_SIZE_IN_CENTS), last.bestBid)
    /\ ULe(U(2 * TICK_SIZE_IN_CENTS), last.bestAsk)

BidToCancel(price) ==
    \/ BidArbitragable(price, last.bestAsk)
    \/ /\ last.bestBid # UZero
       /\ BidOutsideBand(price, FrontBid(last.bestBid, last.bestAsk, last.priceAdjustment))

AskToCancel(price) ==
    \/ AskArbitragable(price, last.bestBid)
    \/ /\ last.bestAsk # UZero
       /\ AskOutsideBand(price, FrontAsk(last.bestBid, last.bestAsk, last.priceAdjustment))

\* C9: a FUT update whose budget of new orders is not positive sends no insert,
\* and still sends the cancel of every registered order that is arbitrageable
\* or outside the band.
C9_NoBudgetNoInsert ==
    (IsFutUpdate /\ last.numNewOrdersAllowed <= 0) =>
        /\ Inserts = {}
        /\ \A id \in DOMAIN mBidOrderIdToOrder :
             BidToCancel(heap[mBidOrderIdToOrder[id]].price) => Cancelled(id)
        /\ \A id \in DOMAIN mAskOrderIdToOrder :
             AskToCancel(heap[mAskOrderIdToOrder[id]].price) => Cancelled(id)

\* An update without budget has sent a cancel while the front bid level is
\* empty and the position leaves room for a buy.
C9_Witness ==
    /\ IsFutUpdate /\ last.numNewOrdersAllowed <= 0
    /\ \E id \in DOMAIN mBidOrderIdToOrder : Cancelled(id)
    /\ last.bestBid # UZero
    /\ BidLevel(FrontBid(last.bestBid, last.bestAsk, last.priceAdjustment), 0)
           \notin mBidPrices
    /\ MaximumBidSize(mPosition) > LOT_SIZE * Cardinality(mBidPrices)

\* C10: the budget of a FUT update is max(0, floor((MAX_MESSAGE_FREQ - count -
\* 2 * NUM_CLONES - safetyMargin) / 2)) for the live message count, never
\* negative.
C10_BudgetFormula ==
    IsFutUpdate =>
        /\ last.numNewOrdersAllowed >= 0
        /\ last.numNewOrdersAllowed =
               (LET k == (MAX_MESSAGE_FREQ - last.liveCount - 2 * NUM_CLONES
                              - safetyMargin) \div 2
                IN  IF k > 0 THEN k ELSE 0)

\* The id the step's callback names is in one of the id indexes before the step.
NamesRegistered ==
    \/ last'.id \in DOMAIN mBidOrderIdToOrder
    \/ last'.id \in DOMAIN mAskOrderIdToOrder

\* The step erases the order of last'.id from the three views of one side and
\* touches nothing else of that side.
ErasedFrom(prices, toOrder, idToOrder) ==
    LET order == idToOrder[last'.id]
    IN  /\ idToOrder' = Erase(idToOrder, last'.id)
        /\ toOrder' = Erase(toOrder, heap[order].price)
        /\ prices' = prices \ {heap[order].price}
        /\ heap' = Erase(heap, order)

\* C11: an error callback naming a non-zero id that is registered removes that
\* order from the three views of its side, as a zero-remaining status would,
\* leaves the other orders, the position and the next order id as they are and
\* sends nothing.
C11_ErrorRemovesOrder ==
    [][ (last'.handler = "ErrorMessage" /\ last'.id # 0 /\ NamesRegistered) =>
          /\ IF last'.id \in DOMAIN mBidOrderIdToOrder
             THEN /\ ErasedFrom(mBidPrices, mBidToOrder, mBidOrderIdToOrder)
                  /\ UNCHANGED <<mAskPrices, mAskToOrder, mAskOrderIdToOrder>>
             ELSE /\ ErasedFrom(mAskPrices, mAskToOrder, mAskOrderIdToOrder)
                  /\ UNCHANGED <<mBidPrices, mBidToOrder, mBidOrderIdToOrder>>
          /\ LET s == OrderStatus(Machine, last'.id, 0)
             IN  <<mBidPrices', mBidToOrder', mBidOrderIdToOrder',
                   mAskPrices', mAskToOrder', mAskOrderIdToOrder', heap'>> =
                 <<s.mBidPrices, s.mBidToOrder, s.mBidOrderIdToOrder,
                   s.mAskPrices, s.mAskToOrder, s.mAskOrderIdToOrder, s.heap>>
          /\ UNCHANGED <<mPosition, mNextMessageId>>
          /\ out' = << >> ]_vars

\* An error callback has just removed an order the strategy had inserted, and
\* orders of both sides stay registered.
C11_Witness ==
    /\ last.handler = "ErrorMessage" /\ last.id \in DOMAIN placed
    /\ last.id \notin DOMAIN mBidOrderIdToOrder \cup DOMAIN mAskOrderIdToOrder
    /\ last.resting = Cardinality(mBidPrices) + Cardinality(mAskPrices) + 1
    /\ mBidPrices # {} /\ mAskPrices # {}

\* C12: an error callback with id 0, and an error or status callback naming an
\* id that is in neither id index, leave the registries, the position, the
\* next order id and the rate window as they are and send nothing.
C12_UnknownIdIsIgnored ==
    [][ ( \/ last'.handler = "ErrorMessage" /\ (last'.id = 0 \/ ~NamesRegistered)
          \/ last'.handler = "OrderStatus" /\ ~NamesRegistered ) =>
          /\ UNCHANGED <<mBidPrices, mBidToOrder, mBidOrderIdToOrder,
                         mAskPrices, mAskToOrder, mAskOrderIdToOrder, heap>>
          /\ UNCHANGED <<mPosition, mNextMessageId, mMem, mRollingMessageCount>>
          /\ out' = << >> ]_vars

\* A status update has named an order that had already been removed, while
\* other orders are registered.
C12_Witness ==
    /\ last.handler = "OrderStatus" /\ last.id \in DOMAIN placed
    /\ last.id \notin DOMAIN mBidOrderIdToOrder \cup DOMAIN mAskOrderIdToOrder
    /\ last.resting = Cardinality(mBidPrices) + Cardinality(mAskPrices)
    /\ last.resting > 0

\* C13: the position changes only in OrderFilledMessageHandler; the hedge-fill,
\* status, error, order-book, trade-ticks and disconnect callbacks leave it as
\* it is, so a fill reported by a fill notification and by a status update
\* moves the position once.
C13_OnlyFillsMovePosition ==
    [][ /\ mPosition' # mPosition => last'.handler = "OrderFilled"
        /\ last'.handler \in {"HedgeFilled", "OrderStatus", "ErrorMessage", "OrderBook",
                             "TradeTicks", "Disconnect"} => mPosition' = mPosition ]_vars

\* The unsuccessful-hedge notification (volume 0 at price 0) has been handled
\* after a fill had moved the position.
C13_Witness ==
    /\ last.handler = "HedgeFilled" /\ last.volume = 0 /\ last.bestBid = UZero
    /\ mPosition # 0 /\ mPosition = last.mPosition

\* The volumes of the orders of one id index, added up.
RECURSIVE SumVolumes(_, _)
SumVolumes(ids, idToOrder) ==
    IF ids = {} THEN 0
    ELSE LET id == CHOOSE x \in ids : TRUE
         IN  heap[idToOrder[id]].volume + SumVolumes(ids \ {id}, idToOrder)

\* The orders of an id index that were registered before the latest callback.
Older(idToOrder) == {id \in DOMAIN idToOrder : id < last.mNextMessageId}

\* The volumes of the inserts of one side sent before out[i] in this callback.
RECURSIVE InsertedBefore(_, _)
InsertedBefore(i, side) ==
    IF i <= 1 THEN 0
    ELSE InsertedBefore(i - 1, side) +
         (IF out[i - 1].cmd = "insert" /\ out[i - 1].side = side THEN out[i - 1].volume ELSE 0)

\* C14: after a FUT update that inserted a buy, position plus the volumes of all
\* registered buys is at most POSITION_LIMIT; after one that inserted a sell,
\* the volumes of all registered sells minus position is at most
\* POSITION_LIMIT; every insert has volume min(LOT_SIZE, headroom left when it
\* was inserted).
C14_HeadroomSizing ==
    IsFutUpdate =>
        /\ (\E i \in Inserts : out[i].side = "BUY") =>
               mPosition + SumVolumes(DOMAIN mBidOrderIdToOrder, mBidOrderIdToOrder)
                   <= POSITION_LIMIT
        /\ (\E i \in Inserts : out[i].side = "SELL") =>
               SumVolumes(DOMAIN mAskOrderIdToOrder, mAskOrderIdToOrder) - mPosition
                   <= POSITION_LIMIT
        /\ \A i \in Inserts :
             LET headroom ==
                     IF out[i].side = "BUY"
                     THEN POSITION_LIMIT - mPosition
                          - SumVolumes(Older(mBidOrderIdToOrder), mBidOrderIdToOrder)
                          - InsertedBefore(i, "BUY")
                     ELSE POSITION_LIMIT + mPosition
                          - SumVolumes(Older(mAskOrderIdToOrder), mAskOrderIdToOrder)
                          - InsertedBefore(i, "SELL")
             IN  out[i].volume = (IF headroom < LOT_SIZE THEN headroom ELSE LOT_SIZE)

\* A FUT update has inserted a sell of less than a lot, which uses up the room
\* for sells, and whole lots of buys.
C14_Witness ==
    /\ IsFutUpdate
    /\ \E i \in Inserts : out[i].side = "SELL" /\ out[i].volume < LOT_SIZE
    /\ \E i \in Inserts : out[i].side = "BUY" /\ out[i].volume = LOT_SIZE
    /\ SumVolumes(DOMAIN mAskOrderIdToOrder, mAskOrderIdToOrder) - mPosition = POSITION_LIMIT

\* A cancel of the order was sent before every insert of the callback.
CancelledFirst(id) ==
    \E i \in 1 .. Len(out) :
        /\ out[i].cmd = "cancel" /\ out[i].id = id
        /\ \A j \in Inserts : i < j

\* C15: in every FUT update each registered buy priced above the update's best
\* ask and each registered sell priced below its best bid is sent a cancel,
\* and these cancels are sent before the first insert of the update.
C15_ArbitrageCancelsComeFirst ==
    IsFutUpdate =>
        /\ \A id \in Older(mBidOrderIdToOrder) :
             ULt(last.bestAsk, heap[mBidOrderIdToOrder[id]].price) => CancelledFirst(id)
        /\ \A id \in Older(mAskOrderIdToOrder) :
             ULt(heap[mAskOrderIdToOrder[id]].price, last.bestBid) => CancelledFirst(id)

\* A FUT update has found a registered sell below its best bid, cancelled it
\* and then inserted buys.
C15_Witness ==
    /\ IsFutUpdate
    /\ \E id \in Older(mAskOrderIdToOrder) :
         /\ ULt(heap[mAskOrderIdToOrder[id]].price, last.bestBid)
         /\ CancelledFirst(id)
    /\ \E j \in Inserts : out[j].side = "BUY"

\* price > front or price <= front - NUM_CLONES ticks, in the integers.
OutsideBidBand(price, front) ==
    \/ ULt(front, price)
    \/ /\ ULe(U(NUM_CLONES * TICK_SIZE_IN_CENTS), front)
       /\ ULe(price, USub(front, U(NUM_CLONES * TICK_SIZE_IN_CENTS)))

\* price < front or price >= front + NUM_CLONES ticks, in the integers.
OutsideAskBand(price, front) ==
    \/ ULt(price, front)
    \/ /\ ULe(front, UAdd(front, U(NUM_CLONES * TICK_SIZE_IN_CENTS)))
       /\ ULe(UAdd(front, U(NUM_CLONES * TICK_SIZE_IN_CENTS)), price)

\* C16: in a FUT update with a non-zero best bid a buy that was registered
\* when the update arrived is sent a cancel if and only if its price is above
\* the front bid or at most the front bid minus NUM_CLONES ticks; with a
\* non-zero best ask such a sell is sent a cancel if and only if its price is
\* below the front ask or at least the front ask plus NUM_CLONES ticks.
C16_CancelledIffOutsideBand ==
    IsFutUpdate =>
        /\ last.bestBid # UZero =>
             \A id \in Older(mBidOrderIdToOrder) :
                 Cancelled(id) <=>
                     OutsideBidBand(heap[mBidOrderIdToOrder[id]].price,
                                    FrontBid(last.bestBid, last.bestAsk, last.priceAdjustment))
        /\ last.bestAsk # UZero =>
             \A id \in Older(mAskOrderIdToOrder) :
                 Cancelled(id) <=>
                     OutsideAskBand(heap[mAskOrderIdToOrder[id]].price,
                                    FrontAsk(last.bestBid, last.bestAsk, last.priceAdjustment))

\* C17: every buy a FUT update inserts is priced at or below the update's best
\* ask and every sell it inserts at or above its best bid, for every position
\* within the limit and every reference book.
C17_InsertsWithinReference ==
    IsFutUpdate =>
        \A i \in Inserts :
            /\ out[i].side = "BUY" => ULe(out[i].price, last.bestAsk)
            /\ out[i].side = "SELL" => ULe(last.bestBid, out[i].price)

\* The FUT update had a reference book with 0 < best bid < best ask.
OrderedBook == IsFutUpdate /\ ULt(UZero, last.bestBid) /\ ULt(last.bestBid, last.bestAsk)

\* C18 as claimed: for 0 < best bid < best ask the front bid never equals the
\* reference best bid and the front ask never equals the reference best ask.
C18_FrontNeverAtReference ==
    OrderedBook =>
        /\ FrontBid(last.bestBid, last.bestAsk, last.priceAdjustment) # last.bestBid
        /\ FrontAsk(last.bestBid, last.bestAsk, last.priceAdjustment) # last.bestAsk

\* C18 as amended: for 0 < best bid < best ask the front bid equals the
\* reference best bid exactly when the skew is plus the additional spread
\* (position -64 .. -55), the front ask equals the reference best ask exactly
\* when the skew is minus the additional spread (position 55 .. 64), and a
\* ladder started on an empty side starts at that front price.
C18_FrontAtReferenceWhenSkewIsSpread ==
    OrderedBook =>
        /\ FrontBid(last.bestBid, last.bestAsk, last.priceAdjustment) = last.bestBid
               <=> SkewTicks(last.mPosition) * TICK_SIZE_IN_CENTS = ADDITIONAL_SPREAD
        /\ SkewTicks(last.mPosition) * TICK_SIZE_IN_CENTS = ADDITIONAL_SPREAD
               <=> last.mPosition \in -64 .. -55
        /\ FrontAsk(last.bestBid, last.bestAsk, last.priceAdjustment) = last.bestAsk
               <=> SkewTicks(last.mPosition) * TICK_SIZE_IN_CENTS = -ADDITIONAL_SPREAD
        /\ SkewTicks(last.mPosition) * TICK_SIZE_IN_CENTS = -ADDITIONAL_SPREAD
               <=> last.mPosition \in 55 .. 64
        /\ (last.resting = 0 /\ InsertPrices("BUY") # << >>) =>
               InsertPrices("BUY")[1] =
                   FrontBid(last.bestBid, last.bestAsk, last.priceAdjustment)
        /\ (last.resting = 0 /\ InsertPrices("SELL") # << >>) =>
               InsertPrices("SELL")[1] =
                   FrontAsk(last.bestBid, last.bestAsk, last.priceAdjustment)

\* At position -60 the 10000/10100 snapshot has been quoted on empty
\* registries and the first buy is priced at the reference best bid.
C18_Witness ==
    /\ OrderedBook /\ last.resting = 0 /\ last.mPosition = -60
    /\ last.bestBid = U(10000) /\ last.bestAsk = U(10100)
    /\ InsertPrices("BUY") # << >>
    /\ InsertPrices("BUY")[1] = last.bestBid

\* C19: whenever NoteMessage or GetNonCancelMessagesAllowed returns, the live
\* count is the number of entries between head and tail of the buffer, none of
\* them is older than PeriodLength at the time the method read, and they are
\* exactly the commands noted within the last PeriodLength, once each, in order.
Accesses == {last.accesses[i] : i \in 1 .. Len(last.accesses)}

Notes == SelectSeq(last.accesses, LAMBDA a : a.method = "NoteMessage")

C19_LiveCountIsWindow ==
    /\ \A a \in Accesses :
           /\ a.count = Len(a.mem)
           /\ \A k \in 1 .. Len(a.mem) : a.time - a.mem[k] <= PeriodLength
           /\ a.mem = Recent(a.noted, a.time)
    /\ Len(Notes) = Len(out)
    /\ \A k \in 1 .. Len(Notes) :
           /\ Len(Notes[k].noted) = Len(noted) - Len(out) + k
           /\ Notes[k].noted[Len(Notes[k].noted)] = Notes[k].time

\* An access that has dropped some commands and kept one noted exactly
\* PeriodLength before.
C19_Witness ==
    \E a \in Accesses :
        /\ Len(a.mem) < Len(a.noted)
        /\ \E k \in 1 .. Len(a.mem) : a.time - a.mem[k] = PeriodLength

\* C20: after NoteMessage has accounted a command the live count is at most
\* MAX_MESSAGE_FREQ, so NoteMessage never takes the backstop wait.
C20_BackstopNeverEntered ==
    \A k \in 1 .. Len(Notes) : ~MustWait(Notes[k].count)

\* C21: a command whose NoteMessage took the backstop wait is sent when, itself
\* included, at most MAX_MESSAGE_FREQ commands were sent within the preceding
\* PeriodLength.  Every earlier command was sent no sooner than it was noted,
\* so the commands noted within PeriodLength of the send are among them.
NotedBefore(k) == SubSeq(Notes[k].noted, 1, Len(Notes[k].noted) - 1)

C21_WaitRestoresRate ==
    \A k \in 1 .. Len(Notes) :
        MustWait(Notes[k].count) =>
            Len(Recent(NotedBefore(k), out[k].at)) + 1 <= MAX_MESSAGE_FREQ

\* C22: in a FUT update every insert is issued while the budget is positive
\* when taken at that instant: GetNonCancelMessagesAllowed over the count as it
\* stands just before the insert is noted returns more than 0.
CountBefore(k) == Notes[k].count - 1

C22_InsertOnlyWithTrueBudget ==
    IsFutUpdate =>
        \A k \in 1 .. Len(out) :
            out[k].cmd = "insert" => NonCancelMessagesAllowed(CountBefore(k)) > 0

\* C23: each side's registry holds at most NUM_CLONES orders, so the orders
\* registered never outnumber the 2 * NUM_CLONES messages the budget reserves.
C23_RegistryWithinLadderDepth ==
    /\ Cardinality(mBidPrices) <= NUM_CLONES
    /\ Cardinality(mAskPrices) <= NUM_CLONES

\* C24: every insert and every hedge carries an id above the id of every
\* command issued before it, in this callback and in earlier ones, so no id is
\* used twice, and no id is in both the buy and the sell id index.
TakesId(c) == c.cmd \in {"insert", "hedge"}

C24_IdsStrictlyIncrease ==
    /\ \A k \in 1 .. Len(out) :
           TakesId(out[k]) =>
               /\ last.mNextMessageId <= out[k].id
               /\ out[k].id < mNextMessageId
               /\ \A j \in 1 .. k - 1 : out[j].id < out[k].id
    /\ \A id \in DOMAIN placed \cup DOMAIN mBidOrderIdToOrder \cup DOMAIN mAskOrderIdToOrder :
           id < mNextMessageId
    /\ DOMAIN mBidOrderIdToOrder \cap DOMAIN mAskOrderIdToOrder = {}

\* A hedge that takes an id after orders were inserted on both sides.
C24_Witness ==
    /\ last.handler = "OrderFilled"
    /\ Len(out) = 1 /\ out[1].cmd = "hedge" /\ out[1].id > 1
    /\ mBidOrderIdToOrder # << >> /\ mAskOrderIdToOrder # << >>

\* C25: in a FUT update the inserts of a side go out nearest level first; an
\* insert at a level means every nearer level was covered when the update
\* arrived or got its insert earlier in the update; and every insert goes out
\* while both the volume headroom and the insert budget are above zero.
BidFront == FrontBid(last.bestBid, last.bestAsk, last.priceAdjustment)
AskFront == FrontAsk(last.bestBid, last.bestAsk, last.priceAdjustment)

\* The price of a level: `offset` ticks below the front bid, above the front ask.
LevelPrice(side, offset) ==
    IF side = "BUY" THEN USub(BidFront, U(offset * TICK_SIZE_IN_CENTS))
    ELSE UAdd(AskFront, U(offset * TICK_SIZE_IN_CENTS))

\* The level exists: the buy side does not run below zero.
IsLevel(side, offset) ==
    /\ offset \in 0 .. NUM_CLONES - 1
    /\ side = "BUY" => ULe(U(offset * TICK_SIZE_IN_CENTS), BidFront)

LevelsOf(side, price) ==
    {offset \in 0 .. NUM_CLONES - 1 : IsLevel(side, offset) /\ LevelPrice(side, offset) = price}

\* The prices a side had registered when the update arrived.
CoveredPrices(side) ==
    IF side = "BUY"
    THEN {heap[mBidOrderIdToOrder[id]].price : id \in Older(mBidOrderIdToOrder)}
    ELSE {heap[mAskOrderIdToOrder[id]].price : id \in Older(mAskOrderIdToOrder)}

HeadroomBefore(i) ==
    IF out[i].side = "BUY"
    THEN POSITION_LIMIT - mPosition
         - SumVolumes(Older(mBidOrderIdToOrder), mBidOrderIdToOrder) - InsertedBefore(i, "BUY")
    ELSE POSITION_LIMIT + mPosition
         - SumVolumes(Older(mAskOrderIdToOrder), mAskOrderIdToOrder) - InsertedBefore(i, "SELL")

BudgetBefore(i) == last.numNewOrdersAllowed - Cardinality({j \in Inserts : j < i})

PriceOf(idToOrder, id) == heap[idToOrder[id]].price

OnePricePerOrder(idToOrder) ==
    \A a, b \in DOMAIN idToOrder :
        PriceOf(idToOrder, a) = PriceOf(idToOrder, b) => a = b

C26_OneOrderPerPrice ==
    /\ OnePricePerOrder(mBidOrderIdToOrder)
    /\ OnePricePerOrder(mAskOrderIdToOrder)
    /\ IsFutUpdate =>
           \A i \in Inserts :
               /\ out[i].price \notin CoveredPrices(out[i].side)
               /\ \A j \in Inserts :
                      (j < i /\ out[j].side = out[i].side) => out[j].price # out[i].price

\* An update that inserted a buy behind a level that a registered buy covered.
C26_Witness ==
    /\ IsFutUpdate
    /\ \E i \in Inserts :
           /\ out[i].side = "BUY"
           /\ \E b \in LevelsOf("BUY", out[i].price) :
                  \E a \in 0 .. b - 1 : LevelPrice("BUY", a) \in CoveredPrices("BUY")

\* C27: a status update naming a registered order with remaining volume above
\* zero sets that order's recorded volume to the remaining volume and leaves
\* everything else as it is; with remaining volume zero it removes that order
\* from the three views of its side and leaves everything else as it is.
\* Neither sends a command.
StatusOfRegistered == last'.handler = "OrderStatus" /\ NamesRegistered

StatusOrder ==
    IF last'.id \in DOMAIN mBidOrderIdToOrder
    THEN mBidOrderIdToOrder[last'.id]
    ELSE mAskOrderIdToOrder[last'.id]

C27_StatusUpdatesOneOrder ==
    [][ StatusOfRegistered =>
          /\ IF last'.remaining > 0
             THEN /\ heap' = [heap EXCEPT ![StatusOrder].volume = last'.remaining]
                  /\ heap'[StatusOrder].price = heap[StatusOrder].price
                  /\ heap'[StatusOrder].orderId = last'.id
                  /\ UNCHANGED <<mBidPrices, mBidToOrder, mBidOrderIdToOrder,
                                 mAskPrices, mAskToOrder, mAskOrderIdToOrder>>
             ELSE IF last'.id \in DOMAIN mBidOrderIdToOrder
             THEN /\ ErasedFrom(mBidPrices, mBidToOrder, mBidOrderIdToOrder)
                  /\ UNCHANGED <<mAskPrices, mAskToOrder, mAskOrderIdToOrder>>
             ELSE /\ ErasedFrom(mAskPrices, mAskToOrder, mAskOrderIdToOrder)
                  /\ UNCHANGED <<mBidPrices, mBidToOrder, mBidOrderIdToOrder>>
          /\ UNCHANGED <<mPosition, mNextMessageId, mMem, mRollingMessageCount>>
          /\ out' = << >> ]_vars

\* A status update has just set the volume of a registered sell to a remaining
\* volume above zero, while buys are registered too.
C27_Witness ==
    /\ last.handler = "OrderStatus" /\ last.remaining > 0
    /\ last.id \in DOMAIN mAskOrderIdToOrder
    /\ heap[mAskOrderIdToOrder[last.id]].volume = last.remaining
    /\ last.remaining < LOT_SIZE
    /\ mBidPrices # {}

\* C28: once the reference book rests at SettleBook, with updates arriving,
\* cancels answered and time passing, each side's registry eventually holds
\* exactly the front price and the levels behind it, as many as NUM_CLONES and
\* the volume headroom allow, and from then on updates send nothing.
SettledAdjustment == PriceAdjustment(mPosition)

TargetDepth(headroom) == Min(NUM_CLONES, (headroom + LOT_SIZE - 1) \div LOT_SIZE)

TargetBids ==
    LET front == FrontBid(SettleBook[1], SettleBook[2], SettledAdjustment)
    IN  {USub(front, U(k * TICK_SIZE_IN_CENTS)) :
            k \in 0 .. TargetDepth(POSITION_LIMIT - mPosition) - 1}

TargetAsks ==
    LET front == FrontAsk(SettleBook[1], SettleBook[2], SettledAdjustment)
    IN  {UAdd(front, U(k * TICK_SIZE_IN_CENTS)) :
            k \in 0 .. TargetDepth(POSITION_LIMIT + mPosition) - 1}

Quiet == IsFutUpdate => out = << >>

C28_LadderSettles ==
    <>[](mBidPrices = TargetBids /\ mAskPrices = TargetAsks /\ Quiet)

\* The NUM_CLONES levels of a side for the resting book.
BidLevels ==
    LET front == FrontBid(SettleBook[1], SettleBook[2], SettledAdjustment)
    IN  {USub(front, U(k * TICK_SIZE_IN_CENTS)) : k \in 0 .. NUM_CLONES - 1}

AskLevels ==
    LET front == FrontAsk(SettleBook[1], SettleBook[2], SettledAdjustment)
    IN  {UAdd(front, U(k * TICK_SIZE_IN_CENTS)) : k \in 0 .. NUM_CLONES - 1}

BidHeadroomLeft ==
    POSITION_LIMIT - mPosition - SumVolumes(DOMAIN mBidOrderIdToOrder, mBidOrderIdToOrder)

AskHeadroomLeft ==
    POSITION_LIMIT + mPosition - SumVolumes(DOMAIN mAskOrderIdToOrder, mAskOrderIdToOrder)

\* What the resting book does lead to: each side's registry eventually holds
\* only levels of its ladder, a level stays uncovered only when the registered
\* orders of the side use up its volume headroom (so a level behind the front
\* can be held while the front is uncovered), and updates send nothing.
SettlesWithinBand ==
    <>[]( /\ Quiet
          /\ mBidPrices \subseteq BidLevels
          /\ mBidPrices # BidLevels => BidHeadroomLeft <= 0
          /\ mAskPrices \subseteq AskLevels
          /\ mAskPrices # AskLevels => AskHeadroomLeft <= 0 )

\* C29: when both registries hold orders, the highest registered buy price is
\* below the lowest registered sell price: own orders never cross.
C29_OwnOrdersDoNotCross ==
    \A bid \in mBidPrices, ask \in mAskPrices : ULt(bid, ask)

\* C30: an order id is sent at most one cancel: not twice in one callback, and
\* not again in the callback that follows.
CancelIds(commands) ==
    [i \in 1 .. Len(SelectSeq(commands, LAMBDA c : c.cmd = "cancel")) |->
        SelectSeq(commands, LAMBDA c : c.cmd = "cancel")[i].id]

C30_OneCancelPerOrder ==
    [][ /\ \A i, j \in 1 .. Len(CancelIds(out')) :
             CancelIds(out')[i] = CancelIds(out')[j] => i = j
        /\ \A i \in 1 .. Len(CancelIds(out')), j \in 1 .. Len(CancelIds(out)) :
             CancelIds(out')[i] # CancelIds(out)[j] ]_vars

\* C31: an order book update for an instrument other than FUT, a trade-ticks
\* callback for either instrument and a disconnect callback send no command and
\* leave both registries, the position, the next order id and the rate window
\* as they are.
Inert(callback) ==
    \/ callback.handler = "OrderBook" /\ callback.instrument # "FUT"
    \/ callback.handler = "TradeTicks"
    \/ callback.handler = "Disconnect"

C31_InertCallbacks ==
    [][ Inert(last') =>
          /\ out' = << >>
          /\ UNCHANGED <<mBidPrices, mBidToOrder, mBidOrderIdToOrder,
                         mAskPrices, mAskToOrder, mAskOrderIdToOrder, heap>>
          /\ UNCHANGED <<mPosition, mNextMessageId, mMem, mRollingMessageCount, now>> ]_vars

\* An ETF order book update has been handled while orders of both sides are
\* registered, at a book that makes a FUT update cancel and insert.
C31_Witness ==
    /\ last.handler = "OrderBook" /\ last.instrument = "ETF"
    /\ last.bestBid = U(9700)
    /\ \E bid \in mBidPrices : ULt(last.bestAsk, bid)
    /\ mAskPrices # {}
    /\ mRollingMessageCount > 0 /\ out = << >>

\* C32: every insert of a FUT update has a volume above zero and a price above
\* zero that is a level of its side computed without wrap-around, also when a
\* side of the reference book is empty or the best bid is a few ticks; and a
\* side whose reference best price is 0 gets no insert and no cancel other
\* than the cancels of arbitrageable orders.
Max(a, b) == IF a > b THEN a ELSE b

\* The front prices in the integers, from the position the update found.
FrontBidInt ==
    Min(ToInt(last.bestBid) + SkewTicks(last.mPosition) * TICK_SIZE_IN_CENTS - ADDITIONAL_SPREAD,
        ToInt(last.bestAsk))

FrontAskInt ==
    Max(ToInt(last.bestAsk) + SkewTicks(last.mPosition) * TICK_SIZE_IN_CENTS + ADDITIONAL_SPREAD,
        ToInt(last.bestBid))

LevelInt(side, offset) ==
    IF side = "BUY" THEN FrontBidInt - offset * TICK_SIZE_IN_CENTS
    ELSE FrontAskInt + offset * TICK_SIZE_IN_CENTS

C32_InsertsArePositive ==
    IsFutUpdate =>
        /\ \A i \in Inserts :
               /\ out[i].volume > 0
               /\ \E offset \in 0 .. NUM_CLONES - 1 :
                      /\ LevelInt(out[i].side, offset) > 0
                      /\ out[i].price = U(LevelInt(out[i].side, offset))
        /\ last.bestBid = UZero =>
               /\ \A i \in Inserts : out[i].side # "BUY"
               /\ \A id \in DOMAIN mBidOrderIdToOrder :
                      Cancelled(id) =>
                          BidArbitragable(heap[mBidOrderIdToOrder[id]].price, last.bestAsk)
        /\ last.bestAsk = UZero =>
               /\ \A i \in Inserts : out[i].side # "SELL"
               /\ \A id \in DOMAIN mAskOrderIdToOrder :
                      Cancelled(id) =>
                          AskArbitragable(heap[mAskOrderIdToOrder[id]].price, last.bestBid)

====
